---- MODULE Spec2Model ----
(***************************************************************************)
(* A model of FluentLM's pipeline engine (src/FluentLM/pipeline.py): the   *)
(* Context store, the four Step variants, the Pipeline graph built by      *)
(* add_step, and Pipeline.execute in its single-pass and dataset-replay    *)
(* modes.                                                                  *)
(*                                                                         *)
(* Strings are sequences of one-character strings, so that formatting      *)
(* (concatenation) and str.upper are computed, not assumed.  Python's None *)
(* is the value NoneV, which is no string.  A dict is a function whose     *)
(* DOMAIN is the set of its keys.                                          *)
(***************************************************************************)
EXTENDS Integers, Sequences, FiniteSets, TLC

\* ------------------------------------------------------------------ bounds

\* The longest dataset a Source step is built with.
MaxLen == 2

\* The number of add_step / add_edge calls made on one Pipeline.
MaxAdds == 3

\* The number of add / update / remove / clear calls made on one Context.
MaxOps == 3

\* The number of times Pipeline.execute is called again on one Pipeline.
MaxReruns == 2

\* ------------------------------------------------------------------ values

NoneV == <<"<None>">>

K_q == <<"q">>
K_o == <<"o">>
K_t == <<"t">>
K_n == <<"n">>

\* Keys a caller supplies; GenKeys stand for the strings
\* helpers.generate_random_string can return.
Keys == {K_q, K_o, K_t, K_n}

GenKeys == {<<"g", "1">>, <<"g", "2">>}

Letters == <<"a", "b", "c", "d">>

\* The i-th record of a dataset: q holds a letter, t names the field q.
Rec(i) == (K_q :> <<Letters[i]>>) @@ (K_t :> K_q)

DatasetOf(n) == [i \in 1..n |-> Rec(i)]

Range(seq) == {seq[i] : i \in DOMAIN seq}

\* str(value), as str.format applies it to a substituted value.
Str(v) == IF v = NoneV THEN <<"N", "o", "n", "e">> ELSE v

UpperChar(c) ==
    CASE c = "a" -> "A" [] c = "b" -> "B" [] c = "c" -> "C" [] c = "d" -> "D"
      [] c = "e" -> "E" [] c = "g" -> "G" [] c = "i" -> "I" [] c = "n" -> "N"
      [] c = "o" -> "O" [] c = "q" -> "Q" [] c = "t" -> "T" [] c = "z" -> "Z"
      [] OTHER -> c

\* ----------------------------------------------------------------- Context

EmptyCtx == [k \in {} |-> NoneV]

\* Context.add
CtxAdd(ctx, key, value) ==
    [k \in DOMAIN ctx \cup {key} |-> IF k = key THEN value ELSE ctx[k]]

\* Context.get: dict.get, None for an absent key
CtxGet(ctx, key) == IF key \in DOMAIN ctx THEN ctx[key] ELSE NoneV

\* A remove that leaves the entry in place.
CtxRemoveKeeps(ctx, key) == [ctx |-> ctx, err |-> ""]

\* Context.remove: del raises KeyError on an absent key
CtxRemove(ctx, key) ==
    IF key \in DOMAIN ctx
    THEN [ctx |-> [k \in DOMAIN ctx \ {key} |-> ctx[k]], err |-> ""]
    ELSE [ctx |-> ctx, err |-> "KeyError"]

\* A clear that leaves the entries in place.
CtxClearKeeps(ctx) == ctx

\* Context.clear
CtxClear(ctx) == EmptyCtx

\* An update that adds the key when it is absent.
CtxUpdateUpserts(ctx, key, new_value) ==
    [ctx |-> CtxAdd(ctx, key, new_value), err |-> ""]

\* Context.update
CtxUpdate(ctx, key, new_value) ==
    IF key \in DOMAIN ctx
    THEN [ctx |-> [ctx EXCEPT ![key] = new_value], err |-> ""]
    ELSE [ctx |-> ctx, err |-> "KeyError"]

\* ------------------------------------------------------------------- Steps

\* A getter that generates a key on every call.
KeyChoicesFresh(key) == GenKeys

\* Step.get_input_key / Step.get_output_key: the key the call returns and
\* stores, given the field's value before the call.
KeyChoices(key) == IF key = NoneV THEN GenKeys ELSE {key}

Lit(text) == [kind |-> "lit", text |-> text]
Var(name) == [kind |-> "var", text |-> name]

\* PromptStep._extract_variables: the names of the {name} placeholders
ExtractVariables(template) ==
    {template[i].text : i \in {j \in DOMAIN template : template[j].kind = "var"}}

\* The variables argument of PromptStep: <<>> for None, <<map>> for a map
NoMap == <<>>

\* PromptStep.__init__: the variables map; scanned names default to None
PromptVariables(template, variables) ==
    IF variables = NoMap
    THEN [name \in ExtractVariables(template) |-> NoneV]
    ELSE variables[1]

\* An overlay in which the declared defaults win over the Context.
CombinedVarsDefaultsFirst(variables, ctx) ==
    [name \in DOMAIN variables \cup DOMAIN ctx |->
        IF name \in DOMAIN variables THEN variables[name] ELSE ctx[name]]

\* {**self.variables, **context.context}
CombinedVars(variables, ctx) ==
    [name \in DOMAIN variables \cup DOMAIN ctx |->
        IF name \in DOMAIN ctx THEN ctx[name] ELSE variables[name]]

RECURSIVE Format(_, _)
\* str.format over the tokens of the template: [err, text]
Format(template, vars) ==
    IF template = <<>> THEN [err |-> "", text |-> <<>>]
    ELSE LET tok == Head(template)
             rest == Format(Tail(template), vars)
         IN IF tok.kind = "var" /\ tok.text \notin DOMAIN vars
            THEN [err |-> "KeyError", text |-> <<>>]
            ELSE IF rest.err # "" THEN rest
            ELSE [err |-> "",
                  text |-> (IF tok.kind = "var" THEN Str(vars[tok.text])
                            ELSE tok.text) \o rest.text]

\* PromptStep.execute, with ok the key get_output_key returns
PromptExecute(template, variables, ctx, ok) ==
    LET f == Format(template, CombinedVars(variables, ctx))
    IN IF f.err # ""
       THEN [ctx |-> ctx, err |-> f.err, ret |-> NoneV, usedOut |-> FALSE]
       ELSE [ctx |-> CtxAdd(ctx, ok, f.text), err |-> "", ret |-> f.text,
             usedOut |-> TRUE]

\* The functions ApplyStep is built with: [err, val]
ApplyFunc(func, v) ==
    CASE func = "upper" ->
            IF v = NoneV THEN [err |-> "AttributeError", val |-> NoneV]
            ELSE [err |-> "", val |-> [i \in DOMAIN v |-> UpperChar(v[i])]]
      [] func = "identity" -> [err |-> "", val |-> v]
      [] func = "drop_b" ->
            [err |-> "", val |-> IF v = <<"b">> THEN NoneV ELSE v]
      [] func = "fail_b" ->
            IF v = <<"b">> THEN [err |-> "FuncError", val |-> NoneV]
            ELSE [err |-> "", val |-> v]

\* A Transform that reads its output key instead of its input key.
ApplyExecuteReadsOutput(func, ctx, ik, ok) ==
    LET r == ApplyFunc(func, CtxGet(ctx, ok))
    IN IF r.err # ""
       THEN [ctx |-> ctx, err |-> r.err, ret |-> NoneV,
             usedIn |-> TRUE, usedOut |-> FALSE]
       ELSE [ctx |-> CtxAdd(ctx, ok, r.val), err |-> "", ret |-> r.val,
             usedIn |-> TRUE, usedOut |-> TRUE]

\* A Transform that writes its result under its input key.
ApplyExecuteWritesInput(func, ctx, ik, ok) ==
    LET r == ApplyFunc(func, CtxGet(ctx, ik))
    IN IF r.err # ""
       THEN [ctx |-> ctx, err |-> r.err, ret |-> NoneV,
             usedIn |-> TRUE, usedOut |-> FALSE]
       ELSE [ctx |-> CtxAdd(ctx, ik, r.val), err |-> "", ret |-> r.val,
             usedIn |-> TRUE, usedOut |-> TRUE]

\* ApplyStep.execute, with ik / ok the keys the getters return
ApplyExecute(func, ctx, ik, ok) ==
    LET r == ApplyFunc(func, CtxGet(ctx, ik))
    IN IF r.err # ""
       THEN [ctx |-> ctx, err |-> r.err, ret |-> NoneV,
             usedIn |-> TRUE, usedOut |-> FALSE]
       ELSE [ctx |-> CtxAdd(ctx, ok, r.val), err |-> "", ret |-> r.val,
             usedIn |-> TRUE, usedOut |-> TRUE]

\* The outcomes of CallerFacade.call_model: a reply text, or a failure of
\* the provider resolution or of the provider's API.
ModelOutcomes ==
    {[err |-> "", val |-> <<"R">>], [err |-> "CapabilityError", val |-> NoneV]}

\* ModelStep's prompt when it is None or empty: no inline PromptStep is built
NoPrompt == <<>>

\* ModelStep.execute, with ik / ok the keys the getters return, pk the key
\* the inline PromptStep's get_output_key returns, out the call's outcome
ModelExecute(prompt, ctx, ik, ok, pk, out) ==
    LET p == IF prompt # NoPrompt
             THEN PromptExecute(prompt, PromptVariables(prompt, NoMap), ctx, pk)
             ELSE [ctx |-> ctx, err |-> "", ret |-> CtxGet(ctx, ik),
                   usedOut |-> FALSE]
    IN IF p.err # ""
       THEN [ctx |-> p.ctx, err |-> p.err, ret |-> NoneV, usedIn |-> FALSE,
             usedOut |-> FALSE, usedPrompt |-> FALSE]
       ELSE IF out.err # ""
       THEN [ctx |-> p.ctx, err |-> out.err, ret |-> NoneV,
             usedIn |-> (prompt = NoPrompt), usedOut |-> FALSE,
             usedPrompt |-> p.usedOut]
       ELSE [ctx |-> CtxAdd(p.ctx, ok, out.val), err |-> "", ret |-> out.val,
             usedIn |-> (prompt = NoPrompt), usedOut |-> TRUE,
             usedPrompt |-> p.usedOut]

\* DatasetStep._iterator = None
NoIter == -1

\* A target branch with the two target types exchanged.
TargetWriteSwapped(target, target_type, item, ctx) ==
    IF target = NoneV THEN [ctx |-> ctx, err |-> ""]
    ELSE IF target_type = "direct"
    THEN IF target \notin DOMAIN item \/ item[target] \notin DOMAIN item
         THEN [ctx |-> ctx, err |-> "KeyError"]
         ELSE [ctx |-> CtxAdd(ctx, target, item[item[target]]), err |-> ""]
    ELSE IF target_type = "indirect"
    THEN IF target \notin DOMAIN item
         THEN [ctx |-> ctx, err |-> "KeyError"]
         ELSE [ctx |-> CtxAdd(ctx, target, item[target]), err |-> ""]
    ELSE [ctx |-> ctx, err |-> "ValueError"]

\* The target branch of DatasetStep.execute: [ctx, err]
TargetWrite(target, target_type, item, ctx) ==
    IF target = NoneV THEN [ctx |-> ctx, err |-> ""]
    ELSE IF target_type = "indirect"
    THEN IF target \notin DOMAIN item \/ item[target] \notin DOMAIN item
         THEN [ctx |-> ctx, err |-> "KeyError"]
         ELSE [ctx |-> CtxAdd(ctx, target, item[item[target]]), err |-> ""]
    ELSE IF target_type = "direct"
    THEN IF target \notin DOMAIN item
         THEN [ctx |-> ctx, err |-> "KeyError"]
         ELSE [ctx |-> CtxAdd(ctx, target, item[target]), err |-> ""]
    ELSE [ctx |-> ctx, err |-> "ValueError"]

\* The input_key / output_key branches of DatasetStep.execute: [ctx, err]
KeyWrites(ik, ok, item, ctx) ==
    IF ik # NoneV /\ ik \notin DOMAIN item THEN [ctx |-> ctx, err |-> "KeyError"]
    ELSE LET c1 == IF ik # NoneV THEN CtxAdd(ctx, ik, item[ik]) ELSE ctx
         IN IF ok = NoneV THEN [ctx |-> c1, err |-> ""]
            ELSE IF ik \notin DOMAIN item THEN [ctx |-> c1, err |-> "KeyError"]
            ELSE [ctx |-> CtxAdd(c1, ok, item[ik]), err |-> ""]

\* A Source that reports exhaustion one record early.
DatasetExecuteShort(dataset, target, target_type, it, ik, ok, ctx) ==
    LET pos == IF it = NoIter THEN 0 ELSE it
    IN IF pos + 1 >= Len(dataset)
       THEN [ctx |-> ctx, err |-> "", exhausted |-> TRUE, it |-> NoIter,
             ret |-> NoneV, targeted |-> ctx]
       ELSE LET item == dataset[pos + 1]
                t == TargetWrite(target, target_type, item, ctx)
                k == KeyWrites(ik, ok, item, t.ctx)
            IN IF t.err # ""
               THEN [ctx |-> t.ctx, err |-> t.err, exhausted |-> FALSE,
                     it |-> pos + 1, ret |-> NoneV, targeted |-> t.ctx]
               ELSE [ctx |-> k.ctx, err |-> k.err, exhausted |-> FALSE,
                     it |-> pos + 1,
                     ret |-> IF k.err = "" THEN item ELSE NoneV,
                     targeted |-> t.ctx]

\* A Source that keeps its cursor where it is on exhaustion.
DatasetExecuteNoReset(dataset, target, target_type, it, ik, ok, ctx) ==
    LET pos == IF it = NoIter THEN 0 ELSE it
    IN IF pos >= Len(dataset)
       THEN [ctx |-> ctx, err |-> "", exhausted |-> TRUE, it |-> pos,
             ret |-> NoneV, targeted |-> ctx]
       ELSE LET item == dataset[pos + 1]
                t == TargetWrite(target, target_type, item, ctx)
                k == KeyWrites(ik, ok, item, t.ctx)
            IN IF t.err # ""
               THEN [ctx |-> t.ctx, err |-> t.err, exhausted |-> FALSE,
                     it |-> pos + 1, ret |-> NoneV, targeted |-> t.ctx]
               ELSE [ctx |-> k.ctx, err |-> k.err, exhausted |-> FALSE,
                     it |-> pos + 1,
                     ret |-> IF k.err = "" THEN item ELSE NoneV,
                     targeted |-> t.ctx]

\* DatasetStep.execute, with it / ik / ok the fields _iterator, input_key
\* and output_key as they are (the getters are not called):
\* [ctx, err, exhausted, it, ret, targeted], ret being the value returned
\* and targeted the Context as the target branch left it
DatasetExecute(dataset, target, target_type, it, ik, ok, ctx) ==
    LET pos == IF it = NoIter THEN 0 ELSE it
    IN IF pos >= Len(dataset)
       THEN [ctx |-> ctx, err |-> "", exhausted |-> TRUE, it |-> NoIter,
             ret |-> NoneV, targeted |-> ctx]
       ELSE LET item == dataset[pos + 1]
                t == TargetWrite(target, target_type, item, ctx)
                k == KeyWrites(ik, ok, item, t.ctx)
            IN IF t.err # ""
               THEN [ctx |-> t.ctx, err |-> t.err, exhausted |-> FALSE,
                     it |-> pos + 1, ret |-> NoneV, targeted |-> t.ctx]
               ELSE [ctx |-> k.ctx, err |-> k.err, exhausted |-> FALSE,
                     it |-> pos + 1,
                     ret |-> IF k.err = "" THEN item ELSE NoneV,
                     targeted |-> t.ctx]

\* ------------------------------------------------------------------- Graph

RECURSIVE Perms(_)
Perms(S) ==
    IF S = {} THEN {<<>>}
    ELSE UNION {{<<x>> \o p : p \in Perms(S \ {x})} : x \in S}

Pos(seq, x) == CHOOSE i \in DOMAIN seq : seq[i] = x

\* A sort that lists the nodes without looking at the edges.
TopologicalOrdersUnordered(N, E) == Perms(N)

\* A sort that gives up silently on a cycle and lists no node.
TopologicalOrdersSilent(N, E) ==
    LET good == {p \in Perms(N) :
                   \A i \in DOMAIN E : Pos(p, E[i][1]) < Pos(p, E[i][2])}
    IN IF good = {} THEN {<<>>} ELSE good

\* nx.topological_sort: the orders of the nodes in which every edge points
\* forward; none when the graph has a cycle (NetworkXUnfeasible)
TopologicalOrders(N, E) ==
    {p \in Perms(N) : \A i \in DOMAIN E : Pos(p, E[i][1]) < Pos(p, E[i][2])}

RECURSIVE Ends(_, _, _)
\* The other ends of the edges at u, in the order the edges were added:
\* side 1 gives graph.successors(u), side 2 graph.predecessors(u).
Ends(E, u, side) ==
    IF E = <<>> THEN <<>>
    ELSE (IF Head(E)[side] = u THEN <<Head(E)[3 - side]>> ELSE <<>>)
         \o Ends(Tail(E), u, side)

Successors(E, u) == Ends(E, u, 1)

Predecessors(E, v) == Ends(E, v, 2)

RECURSIVE DfsVisit(_, _, _), DfsChildren(_, _, _)
DfsVisit(E, u, seen) ==
    IF u \in Range(seen) THEN seen
    ELSE DfsChildren(E, Successors(E, u), Append(seen, u))

DfsChildren(E, cs, seen) ==
    IF cs = <<>> THEN seen
    ELSE DfsChildren(E, Tail(cs), DfsVisit(E, Head(cs), seen))

\* nx.dfs_preorder_nodes(graph, start)
DfsPreorder(E, start) == DfsVisit(E, start, <<>>)

\* ------------------------------------------------------------------- state

StepIds == {1, 2, 3}

\* Pipeline.previous_step = None
NoStep == 0

VARIABLES
    cfg,            \* per step: what its constructor was given
    input_key,      \* per step: Step.input_key
    output_key,     \* per step: Step.output_key
    iterator,       \* per step: DatasetStep._iterator, records consumed
    prompt_out,     \* per step: ModelStep.prompt_step.output_key
    nodes,          \* Pipeline.graph: its nodes
    edges,          \* Pipeline.graph: its edges, in the order they were added
    previous_step,  \* Pipeline.previous_step
    adds,           \* calls made while building
    pc,             \* where Pipeline.execute is
    context,        \* Pipeline.context.context
    results,        \* the local results of execute, then its return value
    first_step,     \* the local first_step of execute
    mode,           \* the branch execute took: "single", "replay", "" before
    sub_results,    \* dataset-replay: every record's sub_result, None included
    todo,           \* the steps the running loop has yet to execute
    executed,       \* the steps executed in this pass, in order
    fetched,        \* records the Source has handed out in this run
    err,            \* the error that left the last call, "" when none
    initial_context,\* the caller's mapping as it was when execute was called
    aliased,        \* whether Pipeline.context.context is the caller's mapping
    call            \* the last direct call on a Context or a Step, the
                    \* Context it found, and the log of the calls so far

vars == <<cfg, input_key, output_key, iterator, prompt_out, nodes, edges,
          previous_step, adds, pc, context, results, first_step, mode,
          sub_results, todo, executed, fetched, err, initial_context, aliased,
          call>>

stepVars == <<cfg, input_key, output_key, iterator, prompt_out>>

graphVars == <<nodes, edges, previous_step, adds>>

callerVars == <<initial_context, aliased, call>>

NoCall ==
    [op |-> "", key |-> NoneV, value |-> NoneV, before |-> EmptyCtx,
     targeted |-> EmptyCtx, cursor |-> NoIter, log |-> <<>>]

\* What execute is called with: None or an empty mapping (EmptyCtx stands
\* for both, `initial_context or {}` treating them alike), or a mapping of
\* the caller's that holds an entry
InitialContexts == <<EmptyCtx, K_q :> <<"z">>>>

\* cfg of a step: given is the variables argument of PromptStep, variables
\* the map __init__ stored, sized whether the dataset has a len()
Unbuilt ==
    [kind |-> "Unbuilt", in |-> NoneV, out |-> NoneV, func |-> "",
     template |-> <<>>, given |-> NoMap, variables |-> <<>>,
     prompt |-> NoPrompt,
     dataset |-> <<>>, target |-> NoneV, target_type |-> "None",
     sized |-> TRUE]

Greeting == <<Lit(<<"H", "i", " ">>), Var(K_q)>>

\* What PipelineBuilder.using_dataset / apply / with_prompt / call_model
\* (and the Step constructors) are called with.
Constructors(s) ==
    CASE s = 1 ->
           {[Unbuilt EXCEPT !.kind = "Dataset", !.dataset = DatasetOf(n),
                            !.in = k[1], !.out = k[2],
                            !.target = k[3], !.target_type = k[4]] :
              n \in 0..MaxLen,
              k \in {<<K_q, K_q, NoneV, "None">>,
                     <<NoneV, NoneV, NoneV, "None">>,
                     <<NoneV, NoneV, K_t, "direct">>}}
      [] s = 2 ->
           {[Unbuilt EXCEPT !.kind = "Apply", !.func = f,
                            !.in = k[1], !.out = k[2]] :
              f \in {"upper", "drop_b", "fail_b"},
              k \in {<<K_q, K_o>>, <<NoneV, NoneV>>}}
      [] s = 3 ->
           {[Unbuilt EXCEPT !.kind = "Prompt", !.template = Greeting,
                            !.variables = PromptVariables(Greeting, NoMap)],
            [Unbuilt EXCEPT !.kind = "Model"],
            [Unbuilt EXCEPT !.kind = "Model", !.prompt = Greeting]}

Init ==
    /\ cfg = [s \in StepIds |-> Unbuilt]
    /\ input_key = [s \in StepIds |-> NoneV]
    /\ output_key = [s \in StepIds |-> NoneV]
    /\ iterator = [s \in StepIds |-> NoIter]
    /\ prompt_out = [s \in StepIds |-> NoneV]
    /\ nodes = {}
    /\ edges = <<>>
    /\ previous_step = NoStep
    /\ adds = 0
    /\ pc = "idle"
    /\ context = EmptyCtx
    /\ results = <<>>
    /\ first_step = NoStep
    /\ mode = ""
    /\ sub_results = <<>>
    /\ todo = <<>>
    /\ executed = <<>>
    /\ fetched = 0
    /\ err = ""
    /\ initial_context = EmptyCtx
    /\ aliased = FALSE
    /\ call = NoCall

\* Step.__init__ of the steps in S that are not built yet
Construct(S) ==
    \E c \in [S -> UNION {Constructors(s) : s \in S}] :
        /\ \A s \in S : c[s] \in Constructors(s)
        /\ cfg' = [s \in StepIds |->
                     IF s \in S /\ cfg[s].kind = "Unbuilt" THEN c[s] ELSE cfg[s]]
        /\ input_key' = [s \in StepIds |->
                     IF s \in S /\ cfg[s].kind = "Unbuilt" THEN c[s].in
                     ELSE input_key[s]]
        /\ output_key' = [s \in StepIds |->
                     IF s \in S /\ cfg[s].kind = "Unbuilt" THEN c[s].out
                     ELSE output_key[s]]

\* DiGraph.add_edge: an edge already there stays where it is
WithEdge(E, u, v) == IF <<u, v>> \in Range(E) THEN E ELSE Append(E, <<u, v>>)

\* Pipeline.add_step, on a step just built by the Builder or on one added before
AddStep(s) ==
    /\ pc = "idle"
    /\ adds < MaxAdds
    /\ Construct({s})
    /\ nodes' = nodes \cup {s}
    /\ edges' = IF previous_step # NoStep THEN WithEdge(edges, previous_step, s)
                ELSE edges
    /\ previous_step' = s
    /\ adds' = adds + 1
    /\ UNCHANGED <<iterator, prompt_out, pc, context, results, first_step,
                   mode, sub_results, todo, executed, fetched, err, callerVars>>

\* pipeline.graph.add_edge(u, v) on two steps built before, the DiGraph
\* being a public attribute of the Pipeline
AddEdge(u, v) ==
    /\ pc = "idle"
    /\ adds < MaxAdds
    /\ cfg[u].kind # "Unbuilt" /\ cfg[v].kind # "Unbuilt"
    /\ nodes' = nodes \cup {u, v}
    /\ edges' = WithEdge(edges, u, v)
    /\ adds' = adds + 1
    /\ UNCHANGED <<stepVars, previous_step, pc, context, results,
                   first_step, mode, sub_results, todo, executed, fetched, err,
                   callerVars>>

\* ---------------------------------------------------------------- executor

\* step.execute(context) by the step's class, with inNow / outNow the
\* step's key fields as they are and ik / ok / gk the keys its getters
\* return: [ctx, err, ret, usedIn, usedOut, usedPrompt, it, targeted,
\* exhausted]
StepExecute(c, ctx, inNow, outNow, it, ik, ok, gk, out) ==
    CASE c.kind = "Dataset" ->
           LET r == DatasetExecute(c.dataset, c.target, c.target_type, it,
                                   inNow, outNow, ctx)
           IN [ctx |-> r.ctx, err |-> r.err, ret |-> r.ret, usedIn |-> FALSE,
               usedOut |-> FALSE, usedPrompt |-> FALSE, it |-> r.it,
               targeted |-> r.targeted, exhausted |-> r.exhausted]
      [] c.kind = "Prompt" ->
           LET r == PromptExecute(c.template, c.variables, ctx, ok)
           IN [ctx |-> r.ctx, err |-> r.err, ret |-> r.ret, usedIn |-> FALSE,
               usedOut |-> r.usedOut, usedPrompt |-> FALSE, it |-> it,
               targeted |-> ctx, exhausted |-> FALSE]
      [] c.kind = "Model" ->
           LET r == ModelExecute(c.prompt, ctx, ik, ok, gk, out)
           IN [ctx |-> r.ctx, err |-> r.err, ret |-> r.ret,
               usedIn |-> r.usedIn, usedOut |-> r.usedOut,
               usedPrompt |-> r.usedPrompt, it |-> it, targeted |-> ctx,
               exhausted |-> FALSE]
      [] c.kind = "Apply" ->
           LET r == ApplyExecute(c.func, ctx, ik, ok)
           IN [ctx |-> r.ctx, err |-> r.err, ret |-> r.ret,
               usedIn |-> r.usedIn, usedOut |-> r.usedOut,
               usedPrompt |-> FALSE, it |-> it, targeted |-> ctx,
               exhausted |-> FALSE]

\* An executor that copies nothing from a predecessor to its successor.
WireNothing(ctx, preds, pk, ik) == ctx

RECURSIVE Wire(_, _, _, _)
\* The loop of Pipeline._execute_step over the predecessors, pk[p] being
\* what p.get_output_key() returns and ik what step.get_input_key() returns
Wire(ctx, preds, pk, ik) ==
    IF preds = <<>> THEN ctx
    ELSE Wire(CtxAdd(ctx, ik, CtxGet(ctx, pk[Head(preds)])), Tail(preds), pk, ik)

PredKeyChoices(preds) ==
    {pk \in [Range(preds) -> Keys \cup GenKeys] :
        \A p \in Range(preds) : pk[p] \in KeyChoices(output_key[p])}

Outcomes(c) ==
    IF c.kind = "Model" THEN ModelOutcomes ELSE {[err |-> "", val |-> NoneV]}

\* Pipeline._execute_step(s); the error it raises, if any, is err'
ExecuteStep(s) ==
    LET preds == Predecessors(edges, s)
    IN \E pk \in PredKeyChoices(preds), ik \in KeyChoices(input_key[s]),
          ok \in KeyChoices(output_key[s]), gk \in KeyChoices(prompt_out[s]),
          out \in Outcomes(cfg[s]) :
        LET wired == Wire(context, preds, pk, ik)
            inNow == IF preds # <<>> THEN ik ELSE input_key[s]
            r == StepExecute(cfg[s], wired, inNow, output_key[s], iterator[s],
                             ik, ok, gk, out)
        IN /\ context' = r.ctx
           /\ err' = r.err
           /\ input_key' = [input_key EXCEPT ![s] = IF r.usedIn THEN ik ELSE inNow]
           /\ output_key' = [p \in StepIds |->
                               IF p \in Range(preds) THEN pk[p]
                               ELSE IF p = s /\ r.usedOut THEN ok
                               ELSE output_key[p]]
           /\ prompt_out' = [prompt_out EXCEPT ![s] = IF r.usedPrompt THEN gk ELSE @]
           /\ iterator' = [iterator EXCEPT ![s] = r.it]
           /\ executed' = Append(executed, s)

\* Context.__init__: initial_context or {}
NewContext(ic) == IF DOMAIN ic = {} THEN EmptyCtx ELSE ic

\* Pipeline.execute, up to the choice of the mode
Execute ==
    /\ pc = "idle"
    /\ \E i \in DOMAIN InitialContexts :
         /\ initial_context' = InitialContexts[i]
         /\ context' = NewContext(InitialContexts[i])
         /\ aliased' = (DOMAIN InitialContexts[i] # {})
    /\ results' = <<>>
    /\ sub_results' = <<>>
    /\ executed' = <<>>
    /\ fetched' = 0
    /\ IF TopologicalOrders(nodes, edges) = {}
       THEN /\ pc' = "raised"
            /\ err' = "NetworkXUnfeasible"
            /\ mode' = ""
            /\ UNCHANGED <<first_step, todo>>
       ELSE \E steps \in TopologicalOrders(nodes, edges) :
              LET first == IF steps = <<>> THEN NoStep ELSE steps[1]
              IN /\ first_step' = first
                 /\ IF first # NoStep /\ cfg[first].kind = "Dataset"
                    THEN /\ mode' = "replay"
                         /\ todo' = <<>>
                         /\ IF cfg[first].sized
                            THEN pc' = "fetch" /\ err' = ""
                            ELSE pc' = "raised" /\ err' = "TypeError"
                    ELSE /\ pc' = "single"
                         /\ mode' = "single"
                         /\ todo' = steps
                         /\ err' = ""
    /\ UNCHANGED <<stepVars, graphVars, call>>

\* Single-pass mode: one turn of the loop over the steps
SingleStep ==
    /\ pc = "single"
    /\ todo # <<>>
    /\ ExecuteStep(Head(todo))
    /\ IF err' # "" THEN pc' = "raised" /\ todo' = todo
       ELSE pc' = "single" /\ todo' = Tail(todo)
    /\ UNCHANGED <<cfg, graphVars, results, first_step, mode, sub_results,
                   fetched, callerVars>>

\* Single-pass mode: the loop is over, execute returns
SingleReturn ==
    /\ pc = "single"
    /\ todo = <<>>
    /\ IF previous_step # NoStep
       THEN \E ok \in KeyChoices(output_key[previous_step]) :
              /\ output_key' = [output_key EXCEPT ![previous_step] = ok]
              /\ results' = CtxGet(context, ok)
       ELSE UNCHANGED <<output_key, results>>
    /\ pc' = "done"
    /\ UNCHANGED <<cfg, input_key, iterator, prompt_out, graphVars, context,
                   first_step, mode, sub_results, todo, executed, fetched, err,
                   callerVars>>

\* Dataset-replay mode: first_step.execute and the test of its result
Fetch ==
    /\ pc = "fetch"
    /\ LET r == DatasetExecute(cfg[first_step].dataset, cfg[first_step].target,
                               cfg[first_step].target_type, iterator[first_step],
                               input_key[first_step], output_key[first_step],
                               context)
       IN /\ context' = r.ctx
          /\ iterator' = [iterator EXCEPT ![first_step] = r.it]
          /\ err' = r.err
          /\ IF r.err # ""
             THEN /\ pc' = "raised"
                  /\ executed' = <<first_step>>
                  /\ UNCHANGED <<todo, fetched>>
             ELSE IF r.exhausted
             THEN /\ pc' = "done"
                  /\ UNCHANGED <<todo, executed, fetched>>
             ELSE /\ pc' = "replay"
                  /\ todo' = Tail(DfsPreorder(edges, first_step))
                  /\ executed' = <<first_step>>
                  /\ fetched' = fetched + 1
    /\ UNCHANGED <<cfg, input_key, output_key, prompt_out, graphVars, results,
                   first_step, mode, sub_results, callerVars>>

\* A replay loop that drops a record whose step failed and goes on.
ReplayStepSkipsFailure ==
    /\ pc = "replay"
    /\ todo # <<>>
    /\ ExecuteStep(Head(todo))
    /\ IF err' # "" THEN pc' = "fetch" /\ todo' = <<>>
       ELSE pc' = "replay" /\ todo' = Tail(todo)
    /\ UNCHANGED <<cfg, graphVars, results, first_step, mode, sub_results,
                   fetched, callerVars>>

\* Dataset-replay mode: one turn of the loop of _execute_from
ReplayStep ==
    /\ pc = "replay"
    /\ todo # <<>>
    /\ ExecuteStep(Head(todo))
    /\ IF err' # "" THEN pc' = "raised" /\ todo' = todo
       ELSE pc' = "replay" /\ todo' = Tail(todo)
    /\ UNCHANGED <<cfg, graphVars, results, first_step, mode, sub_results,
                   fetched, callerVars>>

\* Dataset-replay mode: _execute_from returns, the result is kept and the
\* Context cleared
Record ==
    /\ pc = "replay"
    /\ todo = <<>>
    /\ IF previous_step # NoStep
       THEN \E ok \in KeyChoices(output_key[previous_step]) :
              /\ output_key' = [output_key EXCEPT ![previous_step] = ok]
              /\ sub_results' = Append(sub_results, CtxGet(context, ok))
              /\ results' = IF CtxGet(context, ok) # NoneV
                            THEN Append(results, CtxGet(context, ok))
                            ELSE results
       ELSE /\ sub_results' = Append(sub_results, NoneV)
            /\ UNCHANGED <<output_key, results>>
    /\ context' = CtxClear(context)
    /\ pc' = "fetch"
    /\ UNCHANGED <<cfg, input_key, iterator, prompt_out, graphVars,
                   first_step, mode, todo, executed, fetched, err, callerVars>>

Next ==
    \/ \E s \in StepIds : AddStep(s)
    \/ Execute
    \/ SingleStep
    \/ SingleReturn
    \/ Fetch
    \/ ReplayStep
    \/ Record

Spec == Init /\ [][Next]_vars

\* ------------------------------------------------ graphs built edge by edge

\* Three steps built before the graph is: a Source over a full dataset, a
\* Transform and a Template or Invocation step.
InitGraph ==
    /\ \E a \in {c \in Constructors(2) : c.in = K_q /\ c.func # "drop_b"},
          m \in {c \in Constructors(3) : c.prompt = NoPrompt} :
         LET d == [Unbuilt EXCEPT !.kind = "Dataset", !.in = K_q, !.out = K_q,
                                  !.dataset = DatasetOf(MaxLen)]
             built == (1 :> d) @@ (2 :> a) @@ (3 :> m)
         IN /\ cfg = built
            /\ input_key = [s \in StepIds |-> built[s].in]
            /\ output_key = [s \in StepIds |-> built[s].out]
    /\ iterator = [s \in StepIds |-> NoIter]
    /\ prompt_out = [s \in StepIds |-> NoneV]
    /\ nodes = {}
    /\ edges = <<>>
    /\ previous_step = NoStep
    /\ adds = 0
    /\ pc = "idle"
    /\ context = EmptyCtx
    /\ results = <<>>
    /\ first_step = NoStep
    /\ mode = ""
    /\ sub_results = <<>>
    /\ todo = <<>>
    /\ executed = <<>>
    /\ fetched = 0
    /\ err = ""
    /\ initial_context = EmptyCtx
    /\ aliased = FALSE
    /\ call = NoCall

NextGraph ==
    \/ \E s \in StepIds : AddStep(s)
    \/ \E u, v \in StepIds : AddEdge(u, v)
    \/ Execute
    \/ SingleStep
    \/ SingleReturn
    \/ Fetch
    \/ ReplayStep
    \/ Record

SpecGraph == InitGraph /\ [][NextGraph]_vars

\* ------------------------------------------- a Pipeline executed again

\* The Pipelines the Builder makes of the three steps: the steps added, in
\* the order of the add_step calls
Chains == {<<1>>, <<1, 2>>, <<1, 2, 3>>, <<2, 3>>, <<3, 2>>}

\* A Pipeline built by the Builder, before its first execute
InitRerun ==
    /\ \E chain \in Chains :
         /\ \E d \in Constructors(1), a \in Constructors(2),
               m \in Constructors(3), sized \in BOOLEAN :
              LET built == (1 :> [d EXCEPT !.sized = sized]) @@ (2 :> a)
                           @@ (3 :> m)
                  c == [s \in StepIds |->
                          IF s \in Range(chain) THEN built[s] ELSE Unbuilt]
              IN /\ cfg = c
                 /\ input_key = [s \in StepIds |-> c[s].in]
                 /\ output_key = [s \in StepIds |-> c[s].out]
         /\ nodes = Range(chain)
         /\ edges = [i \in 1..(Len(chain) - 1) |-> <<chain[i], chain[i + 1]>>]
         /\ previous_step = chain[Len(chain)]
         /\ adds = Len(chain)
    /\ iterator = [s \in StepIds |-> NoIter]
    /\ prompt_out = [s \in StepIds |-> NoneV]
    /\ pc = "idle"
    /\ context = EmptyCtx
    /\ results = <<>>
    /\ first_step = NoStep
    /\ mode = ""
    /\ sub_results = <<>>
    /\ todo = <<>>
    /\ executed = <<>>
    /\ fetched = 0
    /\ err = ""
    /\ initial_context = EmptyCtx
    /\ aliased = FALSE
    /\ call = NoCall

\* Pipeline.execute has returned or raised: the caller has the Pipeline
\* back, with its steps as the run left them, and may call execute again;
\* the log keeps how each run ended
Returned ==
    /\ pc \in {"done", "raised"}
    /\ Len(call.log) < MaxReruns
    /\ call' = [call EXCEPT !.log =
                  Append(@, [op |-> "run", ok |-> (pc = "done"), mode |-> mode,
                             fetched |-> fetched, cursor |-> iterator,
                             input_key |-> input_key,
                             output_key |-> output_key])]
    /\ pc' = "idle"
    /\ UNCHANGED <<stepVars, graphVars, context, results, first_step, mode,
                   sub_results, todo, executed, fetched, err, initial_context,
                   aliased>>

NextRerun ==
    \/ Execute
    \/ SingleStep
    \/ SingleReturn
    \/ Fetch
    \/ ReplayStep
    \/ Record
    \/ Returned

SpecRerun == InitRerun /\ [][NextRerun]_vars

\* ------------------------------------------- a Context called directly

\* Everything but the Context and the record of the last call, as it is
\* before any pipeline is built.
Untouched ==
    /\ input_key = [s \in StepIds |-> NoneV]
    /\ output_key = [s \in StepIds |-> NoneV]
    /\ iterator = [s \in StepIds |-> NoIter]
    /\ prompt_out = [s \in StepIds |-> NoneV]
    /\ nodes = {}
    /\ edges = <<>>
    /\ previous_step = NoStep
    /\ adds = 0
    /\ results = <<>>
    /\ first_step = NoStep
    /\ mode = ""
    /\ sub_results = <<>>
    /\ todo = <<>>
    /\ executed = <<>>
    /\ fetched = 0
    /\ err = ""
    /\ initial_context = EmptyCtx
    /\ aliased = FALSE
    /\ call = NoCall

CtxKeys == {K_q, K_o}

CtxValues == {<<"a">>, <<"b">>, NoneV}

InitCtx ==
    /\ Untouched
    /\ cfg = [s \in StepIds |-> Unbuilt]
    /\ pc = "ctx"
    /\ context = EmptyCtx

\* A call of a Context method: what it leaves in the store, what it raises
\* and what it returns.
CtxCall(op, key, value, after, raised, returned) ==
    /\ pc = "ctx"
    /\ op # "get" => Len(call.log) < MaxOps
    /\ call' = [NoCall EXCEPT
                  !.op = op, !.key = key, !.value = value, !.before = context,
                  !.log = IF op = "get" THEN call.log
                          ELSE Append(call.log,
                                      [op |-> op, key |-> key, value |-> value,
                                       ok |-> (raised = "")])]
    /\ context' = after
    /\ err' = raised
    /\ results' = returned
    /\ UNCHANGED <<stepVars, graphVars, pc, first_step, mode, sub_results,
                   todo, executed, fetched, initial_context, aliased>>

CallAdd(key, value) ==
    CtxCall("add", key, value, CtxAdd(context, key, value), "", NoneV)

CallGet(key) ==
    CtxCall("get", key, NoneV, context, "", CtxGet(context, key))

CallRemove(key) ==
    CtxCall("remove", key, NoneV, CtxRemove(context, key).ctx,
            CtxRemove(context, key).err, NoneV)

CallClear ==
    CtxCall("clear", NoneV, NoneV, CtxClear(context), "", NoneV)

CallUpdate(key, value) ==
    CtxCall("update", key, value, CtxUpdate(context, key, value).ctx,
            CtxUpdate(context, key, value).err, NoneV)

NextCtx ==
    \/ \E k \in CtxKeys, v \in CtxValues : CallAdd(k, v)
    \/ \E k \in CtxKeys : CallGet(k)
    \/ \E k \in CtxKeys : CallRemove(k)
    \/ CallClear
    \/ \E k \in CtxKeys, v \in CtxValues : CallUpdate(k, v)

SpecCtx == InitCtx /\ [][NextCtx]_vars

\* ---------------------------------------------- a Step executed directly

Hello == <<Lit(<<"H", "e", "l", "l", "o", " ">>), Var(K_n)>>

Templates == <<Hello, <<Lit(<<"H", "i">>)>>, <<Var(K_q), Lit(<<" ">>), Var(K_n)>>>>

Ada == <<"A", "d", "a">>

Bob == <<"B", "o", "b">>

\* The variables arguments a PromptStep is built with
VariableMaps == <<NoMap, <<EmptyCtx>>, <<K_n :> Bob>>, <<K_n :> NoneV>>>>

\* The Context a step is executed on
StepContexts ==
    <<EmptyCtx, K_q :> <<"z">>, K_n :> Ada, (K_q :> <<"z">>) @@ (K_n :> Ada),
      (K_q :> <<"b">>) @@ (K_o :> <<"o", "l", "d">>)>>

\* The input_key / output_key a step is built with
KeyPairs ==
    {<<NoneV, NoneV>>, <<K_q, K_q>>, <<K_q, K_o>>, <<K_q, K_t>>,
     <<NoneV, K_o>>, <<K_q, NoneV>>, <<K_t, K_o>>}

\* The target / target_type a Source is built with
Targets ==
    {<<NoneV, "None">>} \cup
    ({K_t, K_q} \X {"None", "direct", "indirect", "sideways"})

InitStep ==
    /\ Untouched
    /\ cfg = [s \in StepIds |-> Unbuilt]
    /\ pc = "new"
    /\ context = EmptyCtx

\* PromptStep(template, variables, input_key, output_key)
NewPrompt ==
    /\ pc = "new"
    /\ \E t \in DOMAIN Templates, v \in DOMAIN VariableMaps,
          k \in {<<NoneV, NoneV>>, <<K_q, K_o>>},
          x \in DOMAIN StepContexts :
         /\ cfg' = [cfg EXCEPT ![1] =
                      [Unbuilt EXCEPT !.kind = "Prompt",
                                      !.template = Templates[t],
                                      !.given = VariableMaps[v],
                                      !.variables = PromptVariables(
                                          Templates[t], VariableMaps[v]),
                                      !.in = k[1], !.out = k[2]]]
         /\ input_key' = [input_key EXCEPT ![1] = k[1]]
         /\ output_key' = [output_key EXCEPT ![1] = k[2]]
         /\ context' = StepContexts[x]
    /\ pc' = "step"
    /\ UNCHANGED <<iterator, prompt_out, graphVars, results, first_step, mode,
                   sub_results, todo, executed, fetched, err, callerVars>>

\* DatasetStep(dataset, input_key, output_key, target, target_type)
NewDataset ==
    /\ pc = "new"
    /\ \E n \in 0..MaxLen, k \in KeyPairs, t \in Targets,
          x \in DOMAIN StepContexts :
         /\ cfg' = [cfg EXCEPT ![1] =
                      [Unbuilt EXCEPT !.kind = "Dataset",
                                      !.dataset = DatasetOf(n),
                                      !.target = t[1], !.target_type = t[2],
                                      !.in = k[1], !.out = k[2]]]
         /\ input_key' = [input_key EXCEPT ![1] = k[1]]
         /\ output_key' = [output_key EXCEPT ![1] = k[2]]
         /\ context' = StepContexts[x]
    /\ pc' = "step"
    /\ UNCHANGED <<iterator, prompt_out, graphVars, results, first_step, mode,
                   sub_results, todo, executed, fetched, err, callerVars>>

\* ApplyStep(func, input_key, output_key)
NewApply ==
    /\ pc = "new"
    /\ \E f \in {"upper", "identity", "drop_b", "fail_b"},
          k \in {<<NoneV, NoneV>>, <<K_q, K_q>>, <<K_q, K_o>>},
          x \in DOMAIN StepContexts :
         /\ cfg' = [cfg EXCEPT ![1] =
                      [Unbuilt EXCEPT !.kind = "Apply", !.func = f,
                                      !.in = k[1], !.out = k[2]]]
         /\ input_key' = [input_key EXCEPT ![1] = k[1]]
         /\ output_key' = [output_key EXCEPT ![1] = k[2]]
         /\ context' = StepContexts[x]
    /\ pc' = "step"
    /\ UNCHANGED <<iterator, prompt_out, graphVars, results, first_step, mode,
                   sub_results, todo, executed, fetched, err, callerVars>>

\* ModelStep(prompt = ..., input_key, output_key)
NewModel ==
    /\ pc = "new"
    /\ \E t \in {0} \cup DOMAIN Templates,
          k \in {<<NoneV, NoneV>>, <<K_q, K_o>>},
          x \in DOMAIN StepContexts :
         /\ cfg' = [cfg EXCEPT ![1] =
                      [Unbuilt EXCEPT !.kind = "Model",
                                      !.prompt = IF t = 0 THEN NoPrompt
                                                 ELSE Templates[t],
                                      !.in = k[1], !.out = k[2]]]
         /\ input_key' = [input_key EXCEPT ![1] = k[1]]
         /\ output_key' = [output_key EXCEPT ![1] = k[2]]
         /\ context' = StepContexts[x]
    /\ pc' = "step"
    /\ UNCHANGED <<iterator, prompt_out, graphVars, results, first_step, mode,
                   sub_results, todo, executed, fetched, err, callerVars>>

\* step.execute(context), called on the step itself; fetched counts the
\* calls, enough of them to run a Source past its last record and on
CallExecute ==
    /\ pc = "step"
    /\ fetched < MaxLen + 2
    /\ \E ik \in KeyChoices(input_key[1]), ok \in KeyChoices(output_key[1]),
          gk \in KeyChoices(prompt_out[1]), out \in Outcomes(cfg[1]) :
         LET r == StepExecute(cfg[1], context, input_key[1], output_key[1],
                              iterator[1], ik, ok, gk, out)
         IN /\ context' = r.ctx
            /\ err' = r.err
            /\ results' = r.ret
            /\ input_key' = [input_key EXCEPT ![1] = IF r.usedIn THEN ik ELSE @]
            /\ output_key' = [output_key EXCEPT ![1] = IF r.usedOut THEN ok ELSE @]
            /\ prompt_out' = [prompt_out EXCEPT ![1] = IF r.usedPrompt THEN gk ELSE @]
            /\ iterator' = [iterator EXCEPT ![1] = r.it]
            /\ call' = [NoCall EXCEPT
                          !.op = "execute", !.before = context,
                          !.targeted = r.targeted, !.cursor = iterator[1],
                          !.log = Append(call.log,
                                         [op |-> "execute", ok |-> (r.err = ""),
                                          exhausted |-> r.exhausted,
                                          ret |-> <<r.ret>>])]
    /\ fetched' = fetched + 1
    /\ UNCHANGED <<cfg, graphVars, pc, first_step, mode, sub_results, todo,
                   executed, initial_context, aliased>>

NextStep == NewPrompt \/ NewDataset \/ NewApply \/ NewModel \/ CallExecute

SpecStep == InitStep /\ [][NextStep]_vars

\* ------------------------------------------------------------------ claims

NoDuplicates(seq) == \A i, j \in DOMAIN seq : i # j => seq[i] # seq[j]

\* Every edge into an executed step comes from a step executed before it.
RespectsEdges(seq) ==
    \A i \in DOMAIN edges :
        edges[i][2] \in Range(seq) =>
            /\ edges[i][1] \in Range(seq)
            /\ Pos(seq, edges[i][1]) < Pos(seq, edges[i][2])

\* C1: in single-pass mode, on every acyclic graph, no step is executed
\* twice and a step is executed only after every step with an edge into it;
\* while the loop runs it can always take its next turn or return, each turn
\* moving one step from the steps still to run to the executed ones, so it
\* ends after as many turns as there are nodes; and when execute returns,
\* every node has been executed exactly once.
C1_SinglePass ==
    mode = "single" =>
        /\ NoDuplicates(executed)
        /\ RespectsEdges(executed)
        /\ Range(executed) \subseteq nodes
        /\ pc = "single" =>
             /\ Range(executed) \cup Range(todo) = nodes
             /\ Len(executed) + Len(todo) = Cardinality(nodes)
             /\ ENABLED (SingleStep \/ SingleReturn)
        /\ pc = "done" => Range(executed) = nodes /\ todo = <<>>
        /\ pc \in {"single", "done", "raised"}

\* A graph that is no chain (a step with two predecessors) has been run to
\* the end in single-pass mode.
C1_Witness ==
    /\ mode = "single"
    /\ pc = "done"
    /\ Cardinality(nodes) = 3
    /\ \E v \in nodes : Len(Predecessors(edges, v)) = 2

\* The records of the Source a dataset-replay run is driven by.
Records == cfg[first_step].dataset

NonNone(seq) == SelectSeq(seq, LAMBDA v : v # NoneV)

\* C2 as stated: a dataset-replay run over n >= 1 records that ends without
\* an error has fetched n records and returns n results, whatever the keys
\* and whatever the last step produces.
C2_AsStated ==
    (mode = "replay" /\ pc = "done" /\ Len(Records) >= 1) =>
        /\ fetched = Len(Records)
        /\ Len(results) = Len(Records)

\* C2, amended: a dataset-replay run that ends without an error has fetched
\* each of the n records once, the cursor is back to uninitialized, and the
\* returned sequence holds, in order, the sub-results that are not None: n
\* elements when no record's sub-result is None, fewer otherwise.
C2_Replay ==
    /\ mode = "replay" /\ pc \in {"fetch", "replay"} =>
         /\ fetched <= Len(Records)
         /\ Len(sub_results) = IF pc = "fetch" THEN fetched ELSE fetched - 1
    /\ mode = "replay" /\ pc = "done" =>
         /\ fetched = Len(Records)
         /\ iterator[first_step] = NoIter
         /\ Len(sub_results) = Len(Records)
         /\ results = NonNone(sub_results)
         /\ (\A i \in DOMAIN sub_results : sub_results[i] # NoneV) =>
                Len(results) = Len(Records)

\* A run over two records has returned one result: the other record's
\* sub-result was None.
C2_Witness ==
    /\ mode = "replay"
    /\ pc = "done"
    /\ Len(Records) = 2
    /\ Len(results) = 1
    /\ sub_results[2] = NoneV

\* Source(input_key = output_key = q) followed by Transform(input_key = q,
\* output_key = o), built by the Builder.
Scenario3 ==
    /\ nodes = {1, 2}
    /\ edges = <<<<1, 2>>>>
    /\ previous_step = 2
    /\ cfg[1].in = K_q /\ cfg[1].out = K_q /\ cfg[1].target = NoneV
    /\ cfg[2].in = K_q /\ cfg[2].out = K_o

\* f(r[q]) for each record r, in the dataset's order
Mapped(func, dataset) ==
    [i \in DOMAIN dataset |-> ApplyFunc(func, dataset[i][K_q]).val]

\* C3 as stated: the scenario returns [f(r[q]) for each record r].
C3_AsStated ==
    (Scenario3 /\ mode = "replay" /\ pc = "done") =>
        results = Mapped(cfg[2].func, Records)

\* C3, amended: the scenario returns, in the dataset's order, the values
\* f(r[q]) that are not None; the i-th sub-result is f of the i-th record's
\* q and of no other record's, and with uppercase over q=a, q=b the result
\* is [A, B].
C3_Scenario ==
    (Scenario3 /\ mode = "replay" /\ pc = "done") =>
        /\ sub_results = Mapped(cfg[2].func, Records)
        /\ results = NonNone(Mapped(cfg[2].func, Records))
        /\ (cfg[2].func = "upper" /\ Len(Records) = 2) =>
               results = <<<<"A">>, <<"B">>>>

\* The scenario has run with uppercase over two records.
C3_Witness ==
    /\ Scenario3
    /\ mode = "replay"
    /\ pc = "done"
    /\ cfg[2].func = "upper"
    /\ Len(Records) = 2
    /\ Len(results) = 2

\* C4: in dataset-replay mode, whenever the Source is about to be invoked
\* for the second or a later record, the Context holds no key.
C4_Cleared ==
    (mode = "replay" /\ pc = "fetch" /\ fetched >= 1) => DOMAIN context = {}

\* The Source is about to be invoked for the second record, after a first
\* record whose pass started from a caller's entry and left a result.
C4_Witness ==
    /\ mode = "replay"
    /\ pc = "fetch"
    /\ fetched = 1
    /\ DOMAIN initial_context # {}
    /\ Len(results) = 1
    /\ Len(Records) = 2

\* A cycle: a set of nodes each of which has an edge from a node of the set.
HasCycle ==
    \E C \in SUBSET nodes \ {{}} :
        \A v \in C : \E u \in C : <<u, v>> \in Range(edges)

\* C5: once execute is called on a graph with a cycle, the call has ended
\* with the error of the topological sort, and no step was executed and no
\* record fetched.
C5_Cycle ==
    (HasCycle /\ pc # "idle") =>
        /\ pc = "raised"
        /\ err = "NetworkXUnfeasible"
        /\ mode = ""
        /\ executed = <<>>
        /\ fetched = 0
        /\ ~ ENABLED NextGraph

\* execute was called on A -> B -> A.
C5_Witness ==
    /\ pc = "raised"
    /\ err = "NetworkXUnfeasible"
    /\ \E u, v \in nodes : u # v /\ <<u, v>> \in Range(edges)
                                /\ <<v, u>> \in Range(edges)

Last(seq) == seq[Len(seq)]

Occurrences(seq, x) == Cardinality({i \in DOMAIN seq : seq[i] = x})

\* A step's error has left execute.
StepRaised == pc = "raised" /\ err # "NetworkXUnfeasible"

C6_State ==
    StepRaised =>
        /\ executed # <<>>
        /\ Occurrences(executed, Last(executed)) = 1
        /\ Last(executed) # first_step =>
             /\ todo # <<>>
             /\ Head(todo) = Last(executed)
             /\ Range(Tail(todo)) \cap Range(executed) = {}
        /\ mode = "replay" =>
             /\ iterator[first_step] = Len(sub_results) + 1
             /\ results = NonNone(sub_results)

C6_Step ==
    /\ err' # "" => /\ pc' = "raised"
                    /\ results' = results
                    /\ sub_results' = sub_results
    /\ pc = "raised" => UNCHANGED vars
    /\ pc' = "done" => err' = ""

\* C6: when a step's execute fails, the error leaves execute as it is: the
\* failing step is the last one invoked and was invoked once in this pass,
\* the steps after it are not executed, the Source's cursor stands at the
\* record in flight, and from then on nothing runs and nothing is returned
\* (execute does not reach its return).
C6_Propagates == []C6_State /\ [][C6_Step]_vars

\* The second record's pass was aborted by the Transform's function after
\* the first record's result had been accumulated.
C6_Witness ==
    /\ StepRaised
    /\ mode = "replay"
    /\ err = "FuncError"
    /\ Len(results) = 1
    /\ fetched = 2

\* ------------------------------------------------------------- C7 .. C10

\* The last call was execute on the Template step
PromptCalled == pc = "step" /\ call.op = "execute" /\ cfg[1].kind = "Prompt"

\* The placeholders for which the Context held no value at the call and the
\* step was given no default
Unresolved ==
    {name \in ExtractVariables(cfg[1].template) :
        /\ name \notin DOMAIN call.before
        /\ \/ cfg[1].given = NoMap
           \/ name \notin DOMAIN cfg[1].given[1]}

\* C7, as stated: execute of a Template step fails with MissingVariable
\* whenever a placeholder has no value in the Context and no default given
\* to the step, with an explicit variable map as with scanned variables;
\* no string is produced and nothing is written under the output key.
C7_AsStated ==
    (PromptCalled /\ Unresolved # {}) =>
        /\ err = "KeyError"
        /\ results = NoneV
        /\ context = call.before

\* The value a placeholder resolves to: the Context's, else the default
Resolved(name) ==
    IF name \in DOMAIN call.before THEN call.before[name]
    ELSE cfg[1].variables[name]

RECURSIVE Rendered(_)
\* The template with each placeholder replaced by its resolved value
Rendered(template) ==
    IF template = <<>> THEN <<>>
    ELSE (IF Head(template).kind = "var" THEN Str(Resolved(Head(template).text))
          ELSE Head(template).text) \o Rendered(Tail(template))

\* C8: execute of a Template step resolves each placeholder from the
\* Context first and from the declared defaults only for a name the Context
\* lacks ('Hello {name}' with Context name = Ada yields 'Hello Ada' whatever
\* the default), and the output is stored under the step's output key.
C8_ContextFirst ==
    /\ (PromptCalled /\ err = "") =>
          /\ results = Rendered(cfg[1].template)
          /\ output_key[1] # NoneV
          /\ cfg[1].out # NoneV => output_key[1] = cfg[1].out
          /\ output_key[1] \in DOMAIN context
          /\ context[output_key[1]] = results
    /\ (/\ PromptCalled
        /\ cfg[1].template = Hello
        /\ K_n \in DOMAIN call.before
        /\ call.before[K_n] = Ada) =>
          /\ err = ""
          /\ results = <<"H", "e", "l", "l", "o", " ", "A", "d", "a">>

C8_Witness ==
    /\ PromptCalled
    /\ cfg[1].template = Hello
    /\ cfg[1].given = <<K_n :> Bob>>
    /\ K_n \in DOMAIN call.before
    /\ call.before[K_n] = Ada
    /\ results = <<"H", "e", "l", "l", "o", " ", "A", "d", "a">>
    /\ output_key[1] \in DOMAIN context
    /\ context[output_key[1]] = results

\* The last call was execute on the Source step
SourceCalled == pc = "step" /\ call.op = "execute" /\ cfg[1].kind = "Dataset"

\* The position of the record the call had to hand out
CursorAt == IF call.cursor = NoIter THEN 1 ELSE call.cursor + 1

\* A record was available to the call
Available == CursorAt <= Len(cfg[1].dataset)

\* C9: with a target t and a record r available, execute of a Source stores
\* under Context key t the value r[t] (direct) or r[r[t]] (indirect), which
\* is what a Source whose own keys are not t leaves there; for any other
\* target_type, an unset one included, execute fails with
\* InvalidConfiguration, not as exhaustion, and writes nothing.
C9_Target ==
    (SourceCalled /\ Available /\ cfg[1].target # NoneV) =>
        LET r == cfg[1].dataset[CursorAt]
            t == cfg[1].target
        IN /\ (cfg[1].target_type = "direct" /\ t \in DOMAIN r) =>
                /\ t \in DOMAIN call.targeted
                /\ call.targeted[t] = r[t]
                /\ \A k \in DOMAIN call.before \ {t} :
                      call.targeted[k] = call.before[k]
                /\ t \notin {input_key[1], output_key[1]} =>
                      t \in DOMAIN context /\ context[t] = r[t]
           /\ (/\ cfg[1].target_type = "indirect"
               /\ t \in DOMAIN r
               /\ r[t] \in DOMAIN r) =>
                /\ t \in DOMAIN call.targeted
                /\ call.targeted[t] = r[r[t]]
                /\ \A k \in DOMAIN call.before \ {t} :
                      call.targeted[k] = call.before[k]
                /\ t \notin {input_key[1], output_key[1]} =>
                      t \in DOMAIN context /\ context[t] = r[r[t]]
           /\ cfg[1].target_type \notin {"direct", "indirect"} =>
                /\ err = "ValueError"
                /\ iterator[1] = CursorAt
                /\ context = call.before

C9_Witness ==
    /\ SourceCalled
    /\ Available
    /\ cfg[1].target = K_t
    /\ cfg[1].target_type = "indirect"
    /\ cfg[1].dataset[CursorAt][K_t] = K_q
    /\ K_t \notin DOMAIN call.before
    /\ K_t \in DOMAIN context
    /\ context[K_t] = cfg[1].dataset[CursorAt][K_q]
    /\ err = ""

\* The key of the last call was absent from the store at the call
Absent == call.key \notin DOMAIN call.before

\* C10: update and remove on an absent key fail with KeyNotFound and leave
\* the store as it was; on a present key update replaces only that key's
\* value and remove deletes only that key.
C10_UpdateRemove ==
    /\ (call.op \in {"update", "remove"} /\ Absent) =>
          /\ err = "KeyError"
          /\ DOMAIN context = DOMAIN call.before
          /\ \A k \in DOMAIN context : context[k] = call.before[k]
    /\ (call.op = "update" /\ ~Absent) =>
          /\ err = ""
          /\ DOMAIN context = DOMAIN call.before
          /\ context[call.key] = call.value
          /\ \A k \in DOMAIN context \ {call.key} : context[k] = call.before[k]
    /\ (call.op = "remove" /\ ~Absent) =>
          /\ err = ""
          /\ DOMAIN context = DOMAIN call.before \ {call.key}
          /\ \A k \in DOMAIN context : context[k] = call.before[k]

C10_Witness ==
    /\ call.op = "update"
    /\ Absent
    /\ DOMAIN call.before # {}
    /\ err = "KeyError"
    /\ context = call.before

\* ------------------------------------------------------------ C11 .. C19

\* The calls in the log that decide what get(key) returns: the successful
\* add, update and remove of the key, and the clears
Deciding(key) ==
    {i \in DOMAIN call.log :
        /\ call.log[i].ok
        /\ \/ call.log[i].op = "clear"
           \/ call.log[i].op \in {"add", "update", "remove"}
              /\ call.log[i].key = key}

\* The value of the most recent successful add or update of the key with no
\* remove of the key and no clear after it; None when there is none
MostRecent(key) ==
    IF Deciding(key) = {} THEN NoneV
    ELSE LET last == CHOOSE i \in Deciding(key) :
                         \A j \in Deciding(key) : j <= i
         IN IF call.log[last].op \in {"add", "update"}
            THEN call.log[last].value
            ELSE NoneV

\* C11: after any sequence of add, update, remove and clear, get(key)
\* returns the value of the most recent successful add or update of the key
\* that no remove of the key and no clear followed, and Missing otherwise.
C11_Get ==
    (pc = "ctx" /\ call.op = "get") =>
        /\ err = ""
        /\ results = MostRecent(call.key)
        /\ context = call.before

\* get returned the updated value of a key that was added, updated, and not
\* removed (the other key was).
C11_Witness ==
    /\ pc = "ctx"
    /\ call.op = "get"
    /\ call.key = K_q
    /\ Len(call.log) = 3
    /\ call.log[1] = [op |-> "add", key |-> K_q, value |-> <<"a">>, ok |-> TRUE]
    /\ call.log[2] = [op |-> "update", key |-> K_q, value |-> <<"b">>,
                      ok |-> TRUE]
    /\ call.log[3].op = "remove" /\ call.log[3].key = K_o
    /\ results = <<"b">>

\* Every earlier run of the Pipeline ran to its end
AllOk == \A i \in DOMAIN call.log : call.log[i].ok

\* C12: the Source's cursor moves forward only within a run: the i-th fetch
\* of a run hands out the i-th record; the call after the last record gives
\* the exhaustion signal without an error and leaves the cursor
\* uninitialized, so that a second run of the same Pipeline, after a run
\* that ran to its end, starts at the first record and goes through the
\* same records.
C12_Cursor ==
    /\ (mode = "replay" /\ AllOk) =>
          /\ pc = "fetch" =>
                /\ fetched <= Len(Records)
                /\ iterator[first_step] = IF fetched = 0 THEN NoIter ELSE fetched
          /\ pc = "replay" =>
                /\ fetched \in 1..Len(Records)
                /\ iterator[first_step] = fetched
                /\ (cfg[first_step].in = K_q /\ executed = <<first_step>>) =>
                      context[K_q] = Records[fetched][K_q]
          /\ pc = "done" =>
                /\ err = ""
                /\ fetched = Len(Records)
                /\ iterator[first_step] = NoIter
          /\ pc = "idle" => iterator[first_step] = NoIter
    /\ \A i \in DOMAIN call.log :
          (call.log[i].ok /\ call.log[i].mode = "replay"
             /\ \A j \in 1..(i - 1) : call.log[j].ok) =>
               /\ call.log[i].fetched = Len(cfg[1].dataset)
               /\ call.log[i].cursor[1] = NoIter

\* A second run, after a run that went through both records, is at its
\* first record.
C12_Witness ==
    /\ Len(call.log) = 1
    /\ call.log[1].ok
    /\ call.log[1].fetched = 2
    /\ mode = "replay"
    /\ pc = "replay"
    /\ fetched = 1
    /\ iterator[first_step] = 1
    /\ K_q \in DOMAIN context
    /\ context[K_q] = <<"a">>

\* The last call was execute on the Transform step
ApplyCalled == pc = "step" /\ call.op = "execute" /\ cfg[1].kind = "Apply"

\* What the Context held under the key when the call was made, None for an
\* absent key
Held(key) ==
    IF key \in DOMAIN call.before THEN call.before[key] ELSE NoneV

\* C13: execute of a Transform reads the value v under its input key and
\* leaves func(v) under its output key, which is the value it returns; with
\* the identity function that is v itself; no other key of the Context
\* changes, and a key supplied at construction is the key used.
C13_Transform ==
    (ApplyCalled /\ err = "") =>
        /\ input_key[1] # NoneV /\ output_key[1] # NoneV
        /\ cfg[1].in # NoneV => input_key[1] = cfg[1].in
        /\ cfg[1].out # NoneV => output_key[1] = cfg[1].out
        /\ DOMAIN context = DOMAIN call.before \cup {output_key[1]}
        /\ context[output_key[1]] =
              ApplyFunc(cfg[1].func, Held(input_key[1])).val
        /\ results = context[output_key[1]]
        /\ cfg[1].func = "identity" =>
              context[output_key[1]] = Held(input_key[1])
        /\ \A k \in DOMAIN call.before \ {output_key[1]} :
              context[k] = call.before[k]

\* The identity Transform has copied q's value over the old value of o.
C13_Witness ==
    /\ ApplyCalled
    /\ err = ""
    /\ cfg[1].func = "identity"
    /\ input_key[1] = K_q /\ output_key[1] = K_o
    /\ call.before = (K_q :> <<"b">>) @@ (K_o :> <<"o", "l", "d">>)
    /\ context = (K_q :> <<"b">>) @@ (K_o :> <<"b">>)

\* The Source of the running Pipeline was built without input_key and
\* output_key
KeylessSource ==
    /\ mode = "replay"
    /\ cfg[first_step].in = NoneV
    /\ cfg[first_step].out = NoneV

\* C14, as stated: a Source built without input_key and output_key raises
\* no error and writes nothing but the target entry, on the first record
\* and on every later one, also after the Executor has wired its output to
\* its successor.
C14_AsStated ==
    (KeylessSource /\ executed = <<first_step>>) =>
        /\ err = ""
        /\ DOMAIN context \subseteq
              DOMAIN initial_context \cup {cfg[first_step].target}

\* A key supplied at construction is the step's key, and a key a step had
\* when an earlier run ended is still its key
C15_State ==
    \A s \in nodes :
        /\ cfg[s].in # NoneV => input_key[s] = cfg[s].in
        /\ cfg[s].out # NoneV => output_key[s] = cfg[s].out
        /\ \A i \in DOMAIN call.log :
              /\ call.log[i].input_key[s] # NoneV =>
                    input_key[s] = call.log[i].input_key[s]
              /\ call.log[i].output_key[s] # NoneV =>
                    output_key[s] = call.log[i].output_key[s]

\* No step of the executor changes a key that is known; a getter call stores
\* the key it returns, so the key a later call returns is the stored one
C15_Step ==
    \A s \in StepIds :
        /\ input_key[s] # NoneV => input_key'[s] = input_key[s]
        /\ output_key[s] # NoneV => output_key'[s] = output_key[s]
        /\ prompt_out[s] # NoneV => prompt_out'[s] = prompt_out[s]

\* C15: a Step's input key and output key never change once known: a key
\* supplied at construction is the one the getters return, a key left unset
\* is generated by the first call and returned by every later call, across
\* executions and across runs of the Pipeline.
C15_KeysFixed == []C15_State /\ [][C15_Step]_vars

\* The Transform's output key, generated in the first run, is the key the
\* third run has used too.
C15_Witness ==
    /\ Len(call.log) = 2
    /\ pc = "done"
    /\ 2 \in nodes
    /\ cfg[2].out = NoneV
    /\ call.log[1].output_key[2] \in GenKeys
    /\ output_key[2] = call.log[1].output_key[2]
    /\ executed # <<>>

\* The graph is a linear chain: every add_step call added a new step
LinearChain == adds = Cardinality(nodes) /\ nodes # {}

\* The value a Context holds under a key, None for an absent key
Val(ctx, key) == IF key \in DOMAIN ctx THEN ctx[key] ELSE NoneV

\* One step of a single-pass run on a linear chain
C16_Step ==
    (mode = "single" /\ pc = "single" /\ LinearChain) =>
        /\ (pc' = "single" /\ executed # <<>> /\ executed' # executed) =>
              LET s == Last(executed')
                  p == Last(executed)
                  v == Val(context, output_key'[p])
              IN /\ <<p, s>> \in Range(edges)
                 /\ input_key'[s] # NoneV
                 /\ output_key'[p] # NoneV
                 /\ output_key[p] # NoneV => output_key'[p] = output_key[p]
                 /\ cfg[s].kind = "Apply" =>
                       /\ results' = results
                       /\ Val(context', output_key'[s]) =
                             ApplyFunc(cfg[s].func, v).val
                 /\ (/\ cfg[s].kind # "Dataset"
                     /\ input_key'[s] \notin {output_key'[s], prompt_out'[s]}) =>
                       Val(context', input_key'[s]) = v
        /\ pc' = "done" =>
              /\ todo = <<>>
              /\ Range(executed) = nodes
              /\ context' = context
              /\ results' = Val(context, output_key'[previous_step])
              /\ cfg[previous_step].out # NoneV =>
                    output_key'[previous_step] = cfg[previous_step].out

\* C16: in single-pass mode on a linear chain built by the Builder, a
\* non-first step executes on a Context that holds, under the step's input
\* key, the value held under its predecessor's output key (a Transform's
\* output is its function of that value), and execute returns the value the
\* Context holds under the last step's output key once every step has run,
\* whichever keys were supplied or generated.
C16_Chain == [][C16_Step]_vars

\* A chain Transform -> Template has run to its end and returned the text
\* the Template left under its generated output key.
C16_Witness ==
    /\ mode = "single"
    /\ pc = "done"
    /\ LinearChain
    /\ executed = <<2, 3>>
    /\ cfg[3].kind = "Prompt"
    /\ output_key[3] \in GenKeys
    /\ output_key[3] \in DOMAIN context
    /\ results = context[output_key[3]]
    /\ output_key[2] = K_o
    /\ input_key[3] \in DOMAIN context
    /\ context[input_key[3]] = context[K_o]

\* C17, as stated: in dataset-replay mode a dataset without a known length
\* makes execute raise no error for the missing length: the records are
\* processed and the results returned.
C17_AsStated ==
    (mode = "replay" /\ ~ cfg[first_step].sized) =>
        /\ err # "TypeError"
        /\ pc = "done" => Len(sub_results) = Len(Records)

\* C18, as stated: whenever a dataset-replay run begins, the Source's cursor
\* is uninitialized, also after a run that a step's error aborted, so that
\* the run's first fetch hands out the first record.
C18_AsStated ==
    (mode = "replay" /\ pc = "fetch" /\ fetched = 0) =>
        iterator[first_step] = NoIter

\* C19, as stated: execute works on a Context of its own; when it returns,
\* in single-pass and in dataset-replay mode, the mapping the caller passed
\* has the keys and values it had at the call.  (A mapping that is None or
\* empty is not the one the Context works on; a mapping with an entry is.)
C19_AsStated ==
    (pc = "done" /\ aliased) =>
        /\ DOMAIN context = DOMAIN initial_context
        /\ \A k \in DOMAIN initial_context : context[k] = initial_context[k]
====
